---- MODULE Spec2Model ----
(***************************************************************************)
(* Trebuchet: the serial chain-loader.  The host sender (src/src/main.rs)  *)
(* and the UEFI receiver (src/uefi/src/main.rs) exchange an image over a   *)
(* serial link, in chunks of CHUNK_SIZE bytes, acknowledged by tokens.     *)
(* Bytes are the integers 0..255; a byte string is a sequence of them.     *)
(***************************************************************************)
EXTENDS Integers, Sequences, FiniteSets, TLC

VARIABLES
    image,          \* main.rs:37   the image read from the file
    s_pc,           \* the sender's position in main (main.rs:41-110)
    s_i,            \* the loop index i of main.rs:54 and main.rs:80
    bytes,          \* wait_for_bytes: the target (parameter bytes)
    timeout,        \* wait_for_bytes: parameter timeout, None or Some(d)
    remaining,      \* wait_for_bytes: local remaining (main.rs:129)
    i,              \* wait_for_bytes: local i, the match cursor (main.rs:130)
    result,         \* the Result the last wait_for_bytes call returned
    port_timeout,   \* port.timeout(), set when the port is opened (main.rs:119)
    s2r,            \* bytes written by the host, not yet read by the firmware
    r2s,            \* bytes written by the firmware, not yet read by the host
    r_pc,           \* the receiver's position in receive_image / receive_bytes
    r_i,            \* the loop index i of receive_bytes (uefi/main.rs:98)
    size_buffer,    \* uefi/main.rs:73
    image_buffer,   \* uefi/main.rs:85
    consumed,       \* history: the bytes the current scan has read, in order
    fails,          \* history: failed port.read calls of the current bounded scan
    sent,           \* history: the write_all calls of the sender, in order
    emitted,        \* history: the tokens the receiver wrote, in order
    dropped,        \* history: the tokens whose write_str failed, in order
    matched,        \* history: the targets the sender's scans matched, in order
    timeouts,       \* history: the scans that returned Err, in order
    faults          \* history: the number of channel faults so far

vars == <<image, s_pc, s_i, bytes, timeout, remaining, i, result, port_timeout,
          s2r, r2s, r_pc, r_i, size_buffer, image_buffer,
          consumed, fails, sent, emitted, dropped, matched, timeouts, faults>>

scanVars == <<bytes, timeout, remaining, i, consumed, fails>>
recvVars == <<r_pc, r_i, size_buffer, image_buffer>>

(***************************************************************************)
(* Program constants.  Durations are in microseconds.                      *)
(***************************************************************************)
CHUNK_SIZE == 256
SERIAL_TIMEOUT == 10
ACK_TIMEOUT == 30000
IMAGE_OK_TIMEOUT == 20000
SIZE_BYTES == 8

(***************************************************************************)
(* Bounds of the model.                                                    *)
(***************************************************************************)
\* images have up to MaxChunks chunks
MaxChunks == 2
\* the sender's chunk loop is followed through MaxRetransmit timeouts
MaxRetransmit == 1
\* the channel and the ports fail at most MaxFaults times in a run
MaxFaults == 1
\* a failed-read step of the protocol stands for ReadsPerStep consecutive
\* failed reads of the loop at main.rs:131; the scanner specification
\* SpecScan takes them one at a time
ReadsPerStep == 2000
\* SpecScan: targets, streams, budgets and quanta of the scanner's inputs
MaxTargetLen == 3
MaxStreamLen == 6
MaxBudget == 3
MaxQuantum == 2

None == <<>>
Some(d) == <<d>>

Min(a, b) == IF a < b THEN a ELSE b

\* data[from..to), 0-based like a Rust range
Slice(data, from, to) == SubSeq(data, from + 1, to)

(***************************************************************************)
(* trebuchet_lib::checksum: CRC-16/IBM-SDLC (X.25): reflected polynomial   *)
(* 0x8408, initial register 0xFFFF, final XOR 0xFFFF, computed byte by     *)
(* byte through the 256-entry table of the polynomial.                     *)
(***************************************************************************)
RECURSIVE BitXor(_, _)
BitXor(a, b) ==
    IF a = 0 THEN b
    ELSE IF b = 0 THEN a
    ELSE ((a + b) % 2) + 2 * BitXor(a \div 2, b \div 2)

XorTable == [a \in 0..255 |-> [b \in 0..255 |-> BitXor(a, b)]]

\* a ^ b, for a below 2^16 and b below 2^16
Xor16(a, b) ==
    XorTable[a \div 256][b \div 256] * 256 + XorTable[a % 256][b % 256]

\* one bit of a table entry: shift right, XOR the polynomial on a carry
CrcShift(reg) ==
    IF reg % 2 = 1 THEN BitXor(reg \div 2, 33800) ELSE reg \div 2

CrcTable ==
    [b \in 0..255 |->
        CrcShift(CrcShift(CrcShift(CrcShift(
        CrcShift(CrcShift(CrcShift(CrcShift(b))))))))]

\* the register after one more byte
CrcByte(reg, byte) ==
    LET entry == CrcTable[XorTable[reg % 256][byte]]
    IN  XorTable[reg \div 256][entry % 256] + 256 * (entry \div 256)

\* the one element of a set of one element
The(S) == CHOOSE v \in S : TRUE

\* the register after msg[lo..hi] (1-based, inclusive); the range is halved
\* and the register in the middle is bound to its value, so that the
\* evaluation is shallow and takes each byte once
RECURSIVE CrcUpdate(_, _, _, _)
CrcUpdate(reg, msg, lo, hi) ==
    IF lo > hi THEN reg
    ELSE IF lo = hi THEN CrcByte(reg, msg[lo])
    ELSE The({The({CrcUpdate(left, msg, mid + 1, hi) :
                      left \in {CrcUpdate(reg, msg, lo, mid)}}) :
                 mid \in {(lo + hi) \div 2}})

\* mutant: the last byte left out of the checksum
checksumShort(msg) ==
    The({Xor16(reg, 65535) :
            reg \in {CrcUpdate(65535, m, 1, Len(m) - 1) : m \in {msg}}})

\* mutant: the checksum of the first chunk only
checksumHead(msg) ==
    The({Xor16(reg, 65535) :
            reg \in {CrcUpdate(65535, m, 1, Min(Len(m), CHUNK_SIZE)) :
                        m \in {msg}}})

checksum(msg) ==
    The({Xor16(reg, 65535) :
            reg \in {CrcUpdate(65535, m, 1, Len(m)) : m \in {msg}}})

(***************************************************************************)
(* Token Codec: format!("RDY({})\n", n), format!("ACK({})\n", i),          *)
(* format!("OK({})\n", c) as ASCII bytes.                                  *)
(***************************************************************************)
RECURSIVE Decimal(_)
Decimal(n) ==
    The({IF v < 10 THEN <<48 + v>>
         ELSE Decimal(v \div 10) \o <<48 + (v % 10)>> : v \in {n}})

RDY(n) == <<82, 68, 89, 40>> \o Decimal(n) \o <<41, 10>>
ACK(n) == <<65, 67, 75, 40>> \o Decimal(n) \o <<41, 10>>
OK(c) == <<79, 75, 40>> \o Decimal(c) \o <<41, 10>>

(***************************************************************************)
(* (len as u64).to_be_bytes() and usize::from_be_bytes.                    *)
(***************************************************************************)
\* mutant: the bytes in little-endian order, as to_le_bytes would give them
RECURSIVE ToLeBytes(_, _)
ToLeBytes(n, width) ==
    IF width = 0 THEN <<>>
    ELSE <<n % 256>> \o ToLeBytes(n \div 256, width - 1)

RECURSIVE ToBeBytes(_, _)
ToBeBytes(n, width) ==
    IF width = 0 THEN <<>>
    ELSE ToBeBytes(n \div 256, width - 1) \o <<n % 256>>

RECURSIVE FromBeBytes(_, _)
FromBeBytes(b, n) ==
    IF n = 0 THEN 0 ELSE FromBeBytes(b, n - 1) * 256 + b[n]

from_be_bytes(b) == FromBeBytes(b, Len(b))

(***************************************************************************)
(* slice::chunks(CHUNK_SIZE): the number of chunks and the k-th chunk      *)
(* (0-based), the last one possibly shorter.                               *)
(***************************************************************************)
\* mutant: one chunk too many when len is a multiple of CHUNK_SIZE
NumChunksPlusOne(len) == len \div CHUNK_SIZE + 1

NumChunks(len) == (len + CHUNK_SIZE - 1) \div CHUNK_SIZE
ChunkStart(k) == k * CHUNK_SIZE
ChunkEnd(len, k) == Min((k + 1) * CHUNK_SIZE, len)
Chunk(data, k) == Slice(data, ChunkStart(k), ChunkEnd(Len(data), k))

(***************************************************************************)
(* wait_for_bytes (main.rs:124-150), one loop iteration per step.          *)
(***************************************************************************)
ScanPhases == {"AwaitReady", "AwaitSizeAck", "AwaitSizeOk", "AwaitChunkAck",
               "AwaitImageOk", "Scan"}

\* mutant: the loop stops one byte short of the target
LoopCondShort ==
    /\ i + 1 < Len(bytes)
    /\ (timeout = None \/ (remaining # None /\ remaining[1] > 0))

\* mutant: an absent budget taken for a spent one
LoopCondBounded ==
    /\ i < Len(bytes)
    /\ remaining # None /\ remaining[1] > 0

\* the loop condition of main.rs:131
LoopCond ==
    /\ i < Len(bytes)
    /\ (timeout = None \/ (remaining # None /\ remaining[1] > 0))

\* mutant: a mismatching byte leaves the cursor where it is
AdvanceNoReset(target, cursor, c) ==
    IF target[cursor + 1] = c THEN cursor + 1 ELSE cursor

\* mutant: a byte that does not match is tried against the start of the
\* target before the cursor is reset
AdvanceRetest(target, cursor, c) ==
    IF target[cursor + 1] = c THEN cursor + 1
    ELSE IF target[1] = c THEN 1 ELSE 0

\* main.rs:135-139: the cursor after reading byte c
Advance(target, cursor, c) == IF target[cursor + 1] = c THEN cursor + 1 ELSE 0

\* mutant: plain subtraction
WrappingSub(a, b) == a - b

\* Duration::saturating_sub
SaturatingSub(a, b) == IF a > b THEN a - b ELSE 0

\* the number of consecutive failed reads one step stands for
FailRun == IF s_pc = "Scan" THEN 1 ELSE ReadsPerStep

\* mutant: a cursor one short of the target counts as a match
WaitResultOffByOne(cursor, target) ==
    IF cursor + 1 >= Len(target) THEN [ok |-> TRUE, err |-> 0]
    ELSE [ok |-> FALSE, err |-> cursor]

\* main.rs:145-149
WaitResult(cursor, target) ==
    IF cursor = Len(target) THEN [ok |-> TRUE, err |-> 0]
    ELSE [ok |-> FALSE, err |-> cursor]

\* the state of a fresh call wait_for_bytes(port, target, t)
Call(target, t) ==
    /\ bytes' = target
    /\ timeout' = t
    /\ remaining' = t
    /\ i' = 0
    /\ consumed' = <<>>
    /\ fails' = 0

\* port.read succeeded (main.rs:134-139)
ScanReadOk ==
    /\ s_pc \in ScanPhases
    /\ LoopCond
    /\ r2s # <<>>
    /\ i' = Advance(bytes, i, Head(r2s))
    /\ r2s' = Tail(r2s)
    /\ consumed' = Append(consumed, Head(r2s))
    /\ UNCHANGED <<image, s_pc, s_i, bytes, timeout, remaining, result,
                   port_timeout, s2r, recvVars, fails, sent, emitted, dropped,
                   matched, timeouts, faults>>

\* port.read timed out (main.rs:140-142)
ScanReadFail ==
    /\ s_pc \in ScanPhases
    /\ LoopCond
    /\ IF timeout # None
         THEN /\ remaining' =
                   Some(SaturatingSub(remaining[1], port_timeout * FailRun))
              /\ fails' = fails + FailRun
         ELSE UNCHANGED <<remaining, fails>>
    /\ UNCHANGED <<image, s_pc, s_i, bytes, timeout, i, result, port_timeout,
                   s2r, r2s, recvVars, consumed, sent, emitted, dropped,
                   matched, timeouts, faults>>

\* SpecScan: the call returns to its caller (main.rs:145-149)
ScanReturn ==
    /\ s_pc = "Scan"
    /\ ~LoopCond
    /\ s_pc' = "Returned"
    /\ result' = WaitResult(i, bytes)
    /\ UNCHANGED <<image, s_i, scanVars, port_timeout, s2r, r2s, recvVars,
                   sent, emitted, dropped, matched, timeouts, faults>>

(***************************************************************************)
(* SpecScan: wait_for_bytes alone, on every target, incoming stream,       *)
(* budget and per-read timeout within the bounds.                          *)
(***************************************************************************)
Symbols == {1, 2}

SeqsUpTo(S, n) == UNION {[1..m -> S] : m \in 0..n}

InitScan ==
    /\ image = <<>>
    /\ s_pc = "Scan"
    /\ s_i = 0
    /\ bytes \in SeqsUpTo(Symbols, MaxTargetLen)
    /\ timeout \in {None} \cup {Some(d) : d \in 0..MaxBudget}
    /\ remaining = timeout
    /\ i = 0
    /\ result = [ok |-> TRUE, err |-> 0]
    /\ port_timeout \in 1..MaxQuantum
    /\ s2r = <<>>
    /\ r2s \in SeqsUpTo(Symbols, MaxStreamLen)
    /\ r_pc = "HandOff"
    /\ r_i = 0
    /\ size_buffer = <<>>
    /\ image_buffer = <<>>
    /\ consumed = <<>>
    /\ fails = 0
    /\ sent = <<>>
    /\ emitted = <<>>
    /\ dropped = <<>>
    /\ matched = <<>>
    /\ timeouts = <<>>
    /\ faults = 0

NextScan == ScanReadOk \/ ScanReadFail \/ ScanReturn

SpecScan == InitScan /\ [][NextScan]_vars

(***************************************************************************)
(* The images the sender is run on: one image of each length 0, 1 and,     *)
(* for k full chunks, k*CHUNK_SIZE and k*CHUNK_SIZE + 1.                   *)
(***************************************************************************)
ImageLens ==
    {0, 1} \cup {k * CHUNK_SIZE + d : k \in 1..(MaxChunks - 1), d \in {0, 1}}

ImageOf(n) == [k \in 1..n |-> (7 * k + 3 + (k \div CHUNK_SIZE)) % 256]

Images == {ImageOf(n) : n \in ImageLens}

Zeros(n) == [k \in 1..n |-> 0]

\* main.rs:49
size == ToBeBytes(Len(image), SIZE_BYTES)

(***************************************************************************)
(* The sender: main (main.rs:41-110).                                      *)
(***************************************************************************)
\* mutant: the Err of a fatal wait is dropped, as `let _ =` would
ExpectIgnored(res) == TRUE

\* Result::expect: main goes on with an Ok and the program ends on an Err
Expect(res) == res.ok

\* mutant: the test of main.rs:83 inverted
ChunkAckedInverted(res) == ~res.ok

\* mutant: the break of main.rs:85 taken whatever the scan returned
ChunkAckedAlways(res) == TRUE

\* main.rs:83: is_ok() of the scan for ACK(i)
ChunkAcked(res) == res.ok

\* a scan of the sender has left its loop and returns res to main
Returns(res) ==
    /\ ~LoopCond
    /\ res = WaitResult(i, bytes)
    /\ result' = res
    /\ matched' = IF res.ok THEN Append(matched, bytes) ELSE matched
    /\ timeouts' = IF res.ok THEN timeouts
                   ELSE Append(timeouts, [phase |-> s_pc, idx |-> s_i,
                                          cursor |-> res.err,
                                          got |-> Len(consumed)])

\* mutant: the wait for the image OK given twice the budget of a chunk ACK
CallImageOkWide ==
    /\ Call(OK(checksum(image)), Some(2 * ACK_TIMEOUT))
    /\ s_pc' = "AwaitImageOk"

\* main.rs:93-100: the call that waits for the image OK
CallImageOk ==
    /\ Call(OK(checksum(image)), Some(IMAGE_OK_TIMEOUT))
    /\ s_pc' = "AwaitImageOk"

\* main.rs:42-47: the RDY scan returns; expect
AwaitReadyReturn ==
    /\ s_pc = "AwaitReady"
    /\ \E res \in {WaitResult(i, bytes)} :
        /\ Returns(res)
        /\ s_pc' = IF Expect(res) THEN "SendSize" ELSE "Aborted"
    /\ UNCHANGED <<image, s_i, scanVars, port_timeout, s2r, r2s, recvVars,
                   sent, emitted, dropped, faults>>

\* main.rs:49-55: write the size, enter the loop over its chunks.
\* written = FALSE: write_all fails and expect ends the program.
SendSize(written) ==
    /\ s_pc = "SendSize"
    /\ IF written
         THEN /\ s2r' = s2r \o size
              /\ sent' = Append(sent, [kind |-> "size", idx |-> 0])
              /\ s_i' = 0
              /\ IF NumChunks(Len(size)) > 0
                   THEN /\ Call(ACK(0), Some(ACK_TIMEOUT))
                        /\ s_pc' = "AwaitSizeAck"
                   ELSE /\ Call(OK(checksum(size)), Some(ACK_TIMEOUT))
                        /\ s_pc' = "AwaitSizeOk"
              /\ UNCHANGED faults
         ELSE /\ faults < MaxFaults
              /\ faults' = faults + 1
              /\ s_pc' = "Aborted"
              /\ UNCHANGED <<s2r, sent, s_i, scanVars>>
    /\ UNCHANGED <<image, result, port_timeout, r2s, recvVars, emitted,
                   dropped, matched, timeouts>>

\* main.rs:54-67: the scan for a size ACK returns; expect; next ACK or the OK
AwaitSizeAckReturn ==
    /\ s_pc = "AwaitSizeAck"
    /\ \E res \in {WaitResult(i, bytes)} :
        /\ Returns(res)
        /\ IF ~Expect(res)
             THEN s_pc' = "Aborted" /\ UNCHANGED <<s_i, scanVars>>
             ELSE IF s_i + 1 < NumChunks(Len(size))
                    THEN /\ s_i' = s_i + 1
                         /\ Call(ACK(s_i + 1), Some(ACK_TIMEOUT))
                         /\ s_pc' = "AwaitSizeAck"
                    ELSE /\ s_i' = s_i
                         /\ Call(OK(checksum(size)), Some(ACK_TIMEOUT))
                         /\ s_pc' = "AwaitSizeOk"
    /\ UNCHANGED <<image, port_timeout, s2r, r2s, recvVars, sent, emitted,
                   dropped, faults>>

\* main.rs:62-80: the scan for the size OK returns; expect; enter the loop
\* over the image's chunks, or fall through it to the wait for the image OK
AwaitSizeOkReturn ==
    /\ s_pc = "AwaitSizeOk"
    /\ \E res \in {WaitResult(i, bytes)} :
        /\ Returns(res)
        /\ IF ~Expect(res)
             THEN s_pc' = "Aborted" /\ UNCHANGED <<s_i, scanVars>>
             ELSE IF NumChunks(Len(image)) > 0
                    THEN /\ s_pc' = "SendChunk"
                         /\ s_i' = 0
                         /\ UNCHANGED scanVars
                    ELSE /\ CallImageOk
                         /\ s_i' = s_i
    /\ UNCHANGED <<image, port_timeout, s2r, r2s, recvVars, sent, emitted,
                   dropped, faults>>

\* main.rs:82-83: write chunk s_i, its result ignored, and scan for ACK(s_i).
\* written = FALSE: the write fails or the link loses the chunk.
SendChunk(written) ==
    /\ s_pc = "SendChunk"
    /\ Len(timeouts) <= MaxRetransmit
    /\ IF written
         THEN s2r' = s2r \o Chunk(image, s_i) /\ UNCHANGED faults
         ELSE faults < MaxFaults /\ faults' = faults + 1 /\ UNCHANGED s2r
    /\ sent' = Append(sent, [kind |-> "chunk", idx |-> s_i])
    /\ Call(ACK(s_i), Some(ACK_TIMEOUT))
    /\ s_pc' = "AwaitChunkAck"
    /\ UNCHANGED <<image, s_i, result, port_timeout, r2s, recvVars, emitted,
                   dropped, matched, timeouts>>

\* main.rs:83-100: the scan for ACK(s_i) returns: on Err the loop body runs
\* again; on Ok the next chunk, or after the last one the wait for the OK
AwaitChunkAckReturn ==
    /\ s_pc = "AwaitChunkAck"
    /\ \E res \in {WaitResult(i, bytes)} :
        /\ Returns(res)
        /\ IF ~ChunkAcked(res)
             THEN s_pc' = "SendChunk" /\ UNCHANGED <<s_i, scanVars>>
             ELSE IF s_i + 1 < NumChunks(Len(image))
                    THEN /\ s_pc' = "SendChunk"
                         /\ s_i' = s_i + 1
                         /\ UNCHANGED scanVars
                    ELSE /\ CallImageOk
                         /\ s_i' = s_i
    /\ UNCHANGED <<image, port_timeout, s2r, r2s, recvVars, sent, emitted,
                   dropped, faults>>

\* main.rs:95-103: the scan for the image OK returns; expect
AwaitImageOkReturn ==
    /\ s_pc = "AwaitImageOk"
    /\ \E res \in {WaitResult(i, bytes)} :
        /\ Returns(res)
        /\ s_pc' = IF Expect(res) THEN "Done" ELSE "Aborted"
    /\ UNCHANGED <<image, s_i, scanVars, port_timeout, s2r, r2s, recvVars,
                   sent, emitted, dropped, faults>>

\* main.rs:105-110: after the transfer, print what the firmware writes
Relay ==
    /\ s_pc = "Done"
    /\ r2s # <<>>
    /\ r2s' = Tail(r2s)
    /\ UNCHANGED <<image, s_pc, s_i, scanVars, result, port_timeout, s2r,
                   recvVars, sent, emitted, dropped, matched, timeouts,
                   faults>>

(***************************************************************************)
(* The receiver: receive_image and receive_bytes (uefi/main.rs:45-104).    *)
(***************************************************************************)
\* serial.write_str(token), written = FALSE when it fails
Emit(tok, arg, token, written) ==
    IF written
      THEN /\ r2s' = r2s \o token
           /\ emitted' = Append(emitted, [tok |-> tok, arg |-> arg,
                                          at |-> r_pc])
           /\ UNCHANGED <<faults, dropped>>
      ELSE /\ faults < MaxFaults
           /\ faults' = faults + 1
           /\ dropped' = Append(dropped, [tok |-> tok, arg |-> arg,
                                          at |-> r_pc])
           /\ UNCHANGED <<r2s, emitted>>

\* uefi/main.rs:69-74: write RDY, expect, and enter receive_bytes(size_buffer)
RequestImage(written) ==
    /\ r_pc = "RequestImage"
    /\ Emit("RDY", CHUNK_SIZE, RDY(CHUNK_SIZE), written)
    /\ IF written
         THEN r_pc' = IF NumChunks(Len(size_buffer)) > 0 THEN "ReadSize"
                      ELSE "ConfirmSize"
         ELSE r_pc' = "Panicked"
    /\ r_i' = 0
    /\ UNCHANGED <<image, s_pc, s_i, scanVars, result, port_timeout, s2r,
                   size_buffer, image_buffer, sent, matched, timeouts>>

\* the buffer receive_bytes is filling
Data == IF r_pc \in {"ReadSize", "AckSize"} THEN size_buffer ELSE image_buffer

\* mutant: every chunk is stored at the start of the buffer
StoreAtStart(data, from, got) ==
    [k \in 1..Len(data) |-> IF k <= Len(got) THEN got[k] ELSE data[k]]

\* data with the bytes got written from offset from (0-based) on
Store(data, from, got) ==
    [k \in 1..Len(data) |->
        IF k > from /\ k <= from + Len(got) THEN got[k - from] ELSE data[k]]

SetData(data) ==
    IF r_pc \in {"ReadSize", "AckSize"}
      THEN size_buffer' = data /\ UNCHANGED image_buffer
      ELSE image_buffer' = data /\ UNCHANGED size_buffer

\* the length of chunk r_i of the buffer
RegionLen == ChunkEnd(Len(Data), r_i) - ChunkStart(r_i)

\* uefi/main.rs:99: serial.read(chunk) fills the chunk and returns Ok
RecvRead ==
    /\ r_pc \in {"ReadSize", "ReadImage"}
    /\ Len(s2r) >= RegionLen
    /\ SetData(Store(Data, ChunkStart(r_i), SubSeq(s2r, 1, RegionLen)))
    /\ s2r' = SubSeq(s2r, RegionLen + 1, Len(s2r))
    /\ r_pc' = IF r_pc = "ReadSize" THEN "AckSize" ELSE "AckImage"
    /\ UNCHANGED <<image, s_pc, s_i, scanVars, result, port_timeout, r2s, r_i,
                   sent, emitted, dropped, matched, timeouts, faults>>

\* the numbers of bytes a read that times out may have got
PartialCounts(len, avail) == {k \in {1, len - 1} : k < len /\ k <= avail}

\* mutant: a read that times out is not retried (an `if` for the `while` of
\* uefi/main.rs:99): the receiver goes on to the ACK
RecvReadOnce ==
    /\ r_pc \in {"ReadSize", "ReadImage"}
    /\ faults < MaxFaults
    /\ \E k \in PartialCounts(RegionLen, Len(s2r)) :
        /\ SetData(Store(Data, ChunkStart(r_i), SubSeq(s2r, 1, k)))
        /\ s2r' = SubSeq(s2r, k + 1, Len(s2r))
    /\ faults' = faults + 1
    /\ r_pc' = IF r_pc = "ReadSize" THEN "AckSize" ELSE "AckImage"
    /\ UNCHANGED <<image, s_pc, s_i, scanVars, result, port_timeout, r2s,
                   r_i, sent, emitted, dropped, matched, timeouts>>

\* uefi/main.rs:99: serial.read(chunk) times out after k bytes of the chunk,
\* which it has stored at the start of the chunk, and returns Err; the loop
\* reads into the same chunk again.  (With k = 0 the state is unchanged.)
RecvReadPartial ==
    /\ r_pc \in {"ReadSize", "ReadImage"}
    /\ faults < MaxFaults
    /\ \E k \in PartialCounts(RegionLen, Len(s2r)) :
        /\ SetData(Store(Data, ChunkStart(r_i), SubSeq(s2r, 1, k)))
        /\ s2r' = SubSeq(s2r, k + 1, Len(s2r))
    /\ faults' = faults + 1
    /\ UNCHANGED <<image, s_pc, s_i, scanVars, result, port_timeout, r2s,
                   r_pc, r_i, sent, emitted, dropped, matched, timeouts>>

\* mutant: the write of ACK(i) is followed by expect, as the write of RDY is
RecvAckExpect(written) ==
    /\ r_pc \in {"AckSize", "AckImage"}
    /\ Emit("ACK", r_i, ACK(r_i), written)
    /\ IF ~written
         THEN r_i' = r_i /\ r_pc' = "Panicked"
         ELSE IF r_i + 1 < NumChunks(Len(Data))
                THEN /\ r_i' = r_i + 1
                     /\ r_pc' = IF r_pc = "AckSize" THEN "ReadSize"
                                ELSE "ReadImage"
                ELSE /\ r_i' = r_i
                     /\ r_pc' = IF r_pc = "AckSize" THEN "ConfirmSize"
                                ELSE "ConfirmImage"
    /\ UNCHANGED <<image, s_pc, s_i, scanVars, result, port_timeout, s2r,
                   size_buffer, image_buffer, sent, matched, timeouts>>

\* uefi/main.rs:100-102: write ACK(i), a failure only logged; next chunk, or
\* receive_bytes returns
RecvAck(written) ==
    /\ r_pc \in {"AckSize", "AckImage"}
    /\ Emit("ACK", r_i, ACK(r_i), written)
    /\ IF r_i + 1 < NumChunks(Len(Data))
         THEN /\ r_i' = r_i + 1
              /\ r_pc' = IF r_pc = "AckSize" THEN "ReadSize" ELSE "ReadImage"
         ELSE /\ r_i' = r_i
              /\ r_pc' = IF r_pc = "AckSize" THEN "ConfirmSize"
                         ELSE "ConfirmImage"
    /\ UNCHANGED <<image, s_pc, s_i, scanVars, result, port_timeout, s2r,
                   size_buffer, image_buffer, sent, matched, timeouts>>

\* uefi/main.rs:76-86: write OK(checksum(size_buffer)), a failure only
\* logged; allocate the image buffer; enter receive_bytes(image_buffer)
ConfirmSize(written) ==
    /\ r_pc = "ConfirmSize"
    /\ \E size_checksum \in {checksum(size_buffer)} :
           Emit("OK", size_checksum, OK(size_checksum), written)
    /\ image_buffer' = Zeros(from_be_bytes(size_buffer))
    /\ r_i' = 0
    /\ r_pc' = IF NumChunks(from_be_bytes(size_buffer)) > 0 THEN "ReadImage"
               ELSE "ConfirmImage"
    /\ UNCHANGED <<image, s_pc, s_i, scanVars, result, port_timeout, s2r,
                   size_buffer, sent, matched, timeouts>>

\* mutant: the checksum taken over the last chunk read, not the whole buffer
ConfirmImageLastChunk(written) ==
    /\ r_pc = "ConfirmImage"
    /\ \E image_checksum \in {checksum(Chunk(image_buffer, r_i))} :
           Emit("OK", image_checksum, OK(image_checksum), written)
    /\ r_pc' = "HandOff"
    /\ UNCHANGED <<image, s_pc, s_i, scanVars, result, port_timeout, s2r,
                   r_i, size_buffer, image_buffer, sent, matched, timeouts>>

\* uefi/main.rs:88-94: write OK(checksum(image_buffer)), a failure only
\* logged; return the buffer to bootloader_main
ConfirmImage(written) ==
    /\ r_pc = "ConfirmImage"
    /\ \E image_checksum \in {checksum(image_buffer)} :
           Emit("OK", image_checksum, OK(image_checksum), written)
    /\ r_pc' = "HandOff"
    /\ UNCHANGED <<image, s_pc, s_i, scanVars, result, port_timeout, s2r,
                   r_i, size_buffer, image_buffer, sent, matched, timeouts>>

\* what the started image may print on the serial console: a linefeed, an O
OutputBytes == {10, 79}

\* uefi/main.rs:32-40: bootloader_main loads and starts the image it was
\* handed, which prints on the serial console
StartImage ==
    /\ r_pc = "HandOff"
    /\ \E c \in OutputBytes : r2s' = Append(r2s, c)
    /\ r_pc' = "Started"
    /\ UNCHANGED <<image, s_pc, s_i, scanVars, result, port_timeout, s2r, r_i,
                   size_buffer, image_buffer, sent, emitted, dropped, matched,
                   timeouts, faults>>

\* receive_image has returned the buffer
HandedOff == r_pc \in {"HandOff", "Started"}

(***************************************************************************)
(* The serial link.                                                        *)
(***************************************************************************)
\* the bytes in flight a bit may flip in: the last one, and once the firmware
\* has read the size, the first one too
CorruptPositions ==
    IF r_pc \in {"RequestImage", "ReadSize"} THEN {Len(s2r)}
    ELSE {1, Len(s2r)}

\* one bit of a byte in flight to the firmware flips
Corrupt ==
    /\ s2r # <<>>
    /\ faults < MaxFaults
    /\ \E p \in CorruptPositions, mask \in {1, 128} :
        s2r' = [s2r EXCEPT ![p] = XorTable[@][mask]]
    /\ faults' = faults + 1
    /\ UNCHANGED <<image, s_pc, s_i, scanVars, result, port_timeout, r2s,
                   recvVars, sent, emitted, dropped, matched, timeouts>>

(***************************************************************************)
(* The protocol.                                                           *)
(***************************************************************************)
Init ==
    /\ image \in Images
    /\ s_pc = "AwaitReady"
    /\ s_i = 0
    /\ bytes = RDY(CHUNK_SIZE)
    /\ timeout = None
    /\ remaining = None
    /\ i = 0
    /\ consumed = <<>>
    /\ fails = 0
    /\ result = [ok |-> TRUE, err |-> 0]
    /\ port_timeout = SERIAL_TIMEOUT
    /\ s2r = <<>>
    /\ r2s = <<>>
    /\ r_pc = "RequestImage"
    /\ r_i = 0
    /\ size_buffer = Zeros(SIZE_BYTES)
    /\ image_buffer = <<>>
    /\ sent = <<>>
    /\ emitted = <<>>
    /\ dropped = <<>>
    /\ matched = <<>>
    /\ timeouts = <<>>
    /\ faults = 0

SenderStep ==
    \/ ScanReadOk
    \/ ScanReadFail
    \/ AwaitReadyReturn
    \/ SendSize(TRUE)
    \/ AwaitSizeAckReturn
    \/ AwaitSizeOkReturn
    \/ SendChunk(TRUE)
    \/ AwaitChunkAckReturn
    \/ AwaitImageOkReturn
    \/ Relay

ReceiverStep ==
    \/ RequestImage(TRUE)
    \/ RecvRead
    \/ RecvAck(TRUE)
    \/ ConfirmSize(TRUE)
    \/ ConfirmImage(TRUE)
    \/ StartImage

\* a call on a port fails, or the link loses what was written
CallFails ==
    \/ SendSize(FALSE)
    \/ SendChunk(FALSE)
    \/ RequestImage(FALSE)
    \/ RecvReadPartial
    \/ RecvAck(FALSE)
    \/ ConfirmSize(FALSE)
    \/ ConfirmImage(FALSE)

Fault ==
    \/ CallFails
    \/ Corrupt

Next == SenderStep \/ ReceiverStep \/ Fault

Spec == Init /\ [][Next]_vars

\* calls on the ports may fail, up to MaxFaults times, and no bit flips;
\* each program runs on a machine of its own and goes on while it can
NextFair == SenderStep \/ ReceiverStep \/ CallFails

SpecFair ==
    Init /\ [][NextFair]_vars /\ WF_vars(SenderStep) /\ WF_vars(ReceiverStep)

\* the link and the ports never fail
NextFaithful == SenderStep \/ ReceiverStep

\* both programs keep running: each takes its next step when it has one
SpecFaithful ==
    /\ Init
    /\ [][NextFaithful]_vars
    /\ WF_vars(SenderStep)
    /\ WF_vars(ReceiverStep)


(***************************************************************************)
(* Properties of the scanner, checked under SpecScan.                      *)
(***************************************************************************)
IsPrefix(p, q) == Len(p) <= Len(q) /\ SubSeq(q, 1, Len(p)) = p
IsSuffix(p, q) == Len(p) <= Len(q) /\ SubSeq(q, Len(q) - Len(p) + 1, Len(q)) = p

\* SpecScan: the incoming stream the scan was started on
Stream0 == consumed \o r2s

\* the budget lets the loop of main.rs:131 run at all
BudgetOpen == timeout = None \/ timeout[1] > 0

\* the cursor rule as the specification words it (section 4.3): the cursor
\* the scanner is left with after stream, started at cursor
RECURSIVE CursorAfter(_, _, _)
CursorAfter(target, cursor, stream) ==
    IF stream = <<>> \/ cursor = Len(target) THEN cursor
    ELSE CursorAfter(target,
                     IF target[cursor + 1] = Head(stream) THEN cursor + 1 ELSE 0,
                     Tail(stream))

\* no non-empty suffix of garbage leaves the cursor above 0
NoOverlap(garbage, target) ==
    \A k \in 1..Len(garbage) :
        CursorAfter(target, 0, SubSeq(garbage, k, Len(garbage))) = 0

Garbage == SubSeq(Stream0, 1, Len(Stream0) - Len(bytes))

CeilDiv(a, b) == (a + b - 1) \div b

C10_Step ==
    (s_pc = "Scan" /\ timeout # None) =>
        /\ (s_pc' = "Scan" /\ consumed' # consumed) => remaining' = remaining
        /\ (s_pc' = "Scan" /\ consumed' = consumed) =>
              /\ fails' = fails + 1
              /\ remaining' = Some(IF remaining[1] > port_timeout
                                     THEN remaining[1] - port_timeout ELSE 0)
        /\ remaining = Some(0) => s_pc' = "Returned"

\* C10, when a bounded scan has returned: it failed exactly when the budget
\* is at zero with the cursor short of len(target); the failure carries that
\* cursor; no more than ceil(budget / quantum) reads failed.
C10_Returned ==
    (s_pc = "Returned" /\ timeout # None) =>
        /\ ~result.ok <=> (remaining = Some(0) /\ i < Len(bytes))
        /\ ~result.ok => (result.err = i /\ result.err < Len(bytes))
        /\ result.ok => i = Len(bytes)
        /\ fails <= CeilDiv(timeout[1], port_timeout)
        /\ remaining[1] = 0 \/ remaining[1] = timeout[1] - fails * port_timeout

\* C10: budget accounting and the Timeout failure of a bounded scan.
C10_BoundedScan == [][C10_Step]_vars /\ []C10_Returned

C10_Witness ==
    /\ s_pc = "Returned" /\ timeout # None /\ ~result.ok
    /\ result.err > 0 /\ fails >= 2
    /\ fails = CeilDiv(timeout[1], port_timeout)
    /\ fails * port_timeout > timeout[1]

(***************************************************************************)
(* Properties of the protocol.                                             *)
(***************************************************************************)
Last(q) == q[Len(q)]

\* how many times the sender has written chunk k of the image
TimesSent(k) ==
    Cardinality({n \in 1..Len(sent) : sent[n] = [kind |-> "chunk", idx |-> k]})

\* the sender is on chunk s_i of the image
OnChunk == s_pc \in {"SendChunk", "AwaitChunkAck"}

\* the records of the sender's writes
SizeWrite == [kind |-> "size", idx |-> 0]
ChunkWrite(k) == [kind |-> "chunk", idx |-> k]

\* this step is a write of the sender
Writes == sent' # sent

\* the scan in progress has read the whole of its target, contiguously
MatchedNow == i = Len(bytes) /\ IsSuffix(bytes, consumed)

\* C1, on every step taken while the sender is on chunk s_i: the sender
\* leaves chunk s_i (for chunk s_i + 1 or for the wait for the image OK) only
\* in a step that returns from the scan for ACK(s_i) with the whole token
\* read; after a timeout of that scan it is on chunk s_i again; whatever it
\* writes meanwhile is chunk s_i, the same bytes every time.
C1_Step ==
    OnChunk =>
        /\ (~OnChunk' \/ s_i' # s_i) =>
              /\ s_pc = "AwaitChunkAck"
              /\ bytes = ACK(s_i)
              /\ MatchedNow
              /\ matched' = Append(matched, ACK(s_i))
              /\ \/ s_pc' = "SendChunk" /\ s_i' = s_i + 1
                 \/ s_pc' = "AwaitImageOk"
        /\ (s_pc = "AwaitChunkAck" /\ ~LoopCond /\ i < Len(bytes)
              /\ <<s_pc, timeouts>>' # <<s_pc, timeouts>>) =>
              /\ s_pc' = "SendChunk" /\ s_i' = s_i
              /\ timeouts' = Append(timeouts, [phase |-> "AwaitChunkAck",
                                idx |-> s_i, cursor |-> i,
                                got |-> Len(consumed)])
        /\ Writes =>
              /\ s_pc = "SendChunk"
              /\ sent' = Append(sent, ChunkWrite(s_i))
              /\ s2r' \in {s2r \o Chunk(image, s_i), s2r}
              /\ s_pc' = "AwaitChunkAck" /\ s_i' = s_i
              /\ bytes' = ACK(s_i)

\* C1, in every state: the writes of chunks are in index order, none beyond
\* the chunk the sender is on, and chunk k was written one time more than
\* the scan for ACK(k) timed out.
C1_State ==
    /\ \A n \in 1..Len(sent) : sent[n].kind = "chunk" =>
          /\ sent[n].idx <= s_i
          /\ \A m \in 1..n : sent[m].kind = "chunk" => sent[m].idx <= sent[n].idx
    /\ s_pc = "AwaitChunkAck" =>
          TimesSent(s_i) = 1 + Cardinality({n \in 1..Len(timeouts) :
                                              timeouts[n].idx = s_i})

\* C1: until its scan has matched the whole of ACK(i), the sender stays on
\* chunk i, writes chunk i again after every timeout of the scan, and writes
\* nothing of chunk i+1 nor starts the wait for the image OK.
C1_StaysOnChunk == [][C1_Step]_vars /\ []C1_State

C1_Witness ==
    /\ s_pc = "AwaitChunkAck" /\ s_i = 1
    /\ TimesSent(1) = MaxRetransmit + 1
    /\ Len(timeouts) = MaxRetransmit
    /\ Len(s2r) >= 2

\* the token the n-th successful scan of the sender matches
ExpectedMatch(n) ==
    IF n = 1 THEN RDY(CHUNK_SIZE)
    ELSE IF n = 2 THEN ACK(0)
    ELSE IF n = 3 THEN OK(checksum(size))
    ELSE IF n <= 3 + NumChunks(Len(image)) THEN ACK(n - 4)
    ELSE OK(checksum(image))

\* C2, on every step that changes the sender's phase or chunk: the next
\* phase is the one the order gives, and a phase that follows a scan is
\* entered with that scan's token matched.
C2_Step ==
    (s_pc' # s_pc \/ s_i' # s_i) =>
        /\ matched' # matched =>
              /\ matched' = Append(matched, ExpectedMatch(Len(matched) + 1))
              /\ MatchedNow
              /\ bytes = ExpectedMatch(Len(matched) + 1)
        /\ CASE s_pc = "AwaitReady" ->
                  s_pc' = "SendSize" /\ matched' # matched
             [] s_pc = "SendSize" ->
                  \/ /\ s_pc' = "AwaitSizeAck" /\ matched = <<RDY(CHUNK_SIZE)>>
                     /\ sent = <<>> /\ sent' = <<SizeWrite>>
                     /\ s2r' = s2r \o size /\ Len(size) = SIZE_BYTES
                  \/ s_pc' = "Aborted" /\ sent' = sent
             [] s_pc = "AwaitSizeAck" ->
                  \/ s_pc' = "AwaitSizeOk" /\ Len(matched') = 2
                  \/ s_pc' = "Aborted" /\ timeouts' # timeouts
             [] s_pc = "AwaitSizeOk" ->
                  \/ /\ Len(matched') = 3
                     /\ IF NumChunks(Len(image)) > 0
                          THEN s_pc' = "SendChunk" /\ s_i' = 0
                          ELSE s_pc' = "AwaitImageOk"
                  \/ s_pc' = "Aborted" /\ timeouts' # timeouts
             [] s_pc = "SendChunk" ->
                  /\ s_pc' = "AwaitChunkAck" /\ s_i' = s_i
                  /\ Len(matched) = 3 + s_i
             [] s_pc = "AwaitChunkAck" ->
                  \/ /\ s_pc' = "SendChunk" /\ s_i' = s_i
                     /\ matched' = matched /\ timeouts' # timeouts
                  \/ /\ Len(matched') = 4 + s_i
                     /\ IF s_i + 1 < NumChunks(Len(image))
                          THEN s_pc' = "SendChunk" /\ s_i' = s_i + 1
                          ELSE s_pc' = "AwaitImageOk"
             [] s_pc = "AwaitImageOk" ->
                  \/ /\ s_pc' = "Done"
                     /\ Len(matched') = 4 + NumChunks(Len(image))
                     /\ Last(matched') = OK(checksum(image))
                  \/ s_pc' = "Aborted" /\ timeouts' # timeouts
             [] OTHER -> FALSE

\* C2, in every state: what the sender has written so far is covered by
\* what its scans have matched so far.
C2_State ==
    /\ sent # <<>> => (sent[1] = SizeWrite /\ Len(matched) >= 1)
    /\ \A n \in 1..Len(sent) :
          /\ sent[n].kind = "size" => n = 1
          /\ sent[n].kind = "chunk" => Len(matched) >= 3 + sent[n].idx
    /\ Len(s2r) > 0 => sent # <<>>
    /\ s_pc = "Done" => Len(matched) = 4 + NumChunks(Len(image))

\* C2: the sender's phases occur in the order AwaitReady, SendSize,
\* AwaitSizeAck, AwaitSizeOk, (SendChunk(i), AwaitChunkAck(i)) for i = 0, 1,
\* ..., AwaitImageOk, Done, each one entered only after the token before it
\* was matched; only SendChunk(i)/AwaitChunkAck(i) repeat, for the same i.
C2_PhaseOrder == [][C2_Step]_vars /\ []C2_State

C2_Witness ==
    /\ s_pc = "Done"
    /\ NumChunks(Len(image)) = MaxChunks
    /\ Len(timeouts) >= 1
    /\ Len(matched) = 4 + MaxChunks

\* the phases whose scan main ends the program on
FatalWaits == {"AwaitSizeAck", "AwaitSizeOk", "AwaitImageOk"}

\* the scan in progress has run out of budget short of its target
TimedOut == timeout # None /\ remaining = Some(0) /\ i < Len(bytes)

\* C7, on every step: the sender's step after a timed-out scan for the size
\* ACK, the size OK or the image OK ends the program; an ended program does
\* nothing more; the scan whose timeout the sender survives is the scan for
\* a chunk's ACK.
C7_Step ==
    /\ (s_pc \in FatalWaits /\ TimedOut
          /\ <<s_pc, scanVars, sent, timeouts>>' # <<s_pc, scanVars, sent, timeouts>>)
          => /\ s_pc' = "Aborted"
             /\ Len(timeouts') = Len(timeouts) + 1
             /\ Last(timeouts').phase = s_pc
             /\ UNCHANGED <<sent, s2r, scanVars>>
    /\ s_pc = "Aborted" =>
          /\ UNCHANGED <<s_pc, s_i, scanVars, sent, matched, timeouts>>
          /\ Len(s2r') <= Len(s2r)
    /\ (timeouts' # timeouts /\ s_pc' # "Aborted") =>
          (s_pc = "AwaitChunkAck" /\ s_pc' = "SendChunk")

\* C7, in every state: a sender that has not ended has timed out only in
\* scans for a chunk's ACK, and one that has reached Done too.
C7_State ==
    s_pc # "Aborted" =>
        \A n \in 1..Len(timeouts) : timeouts[n].phase = "AwaitChunkAck"

\* C7: a timeout of the scan for the size ACK, the size OK or the image OK
\* ends the sender at once, with no retry, no further write and no Done;
\* only after a timeout of the scan for a chunk's ACK does the sender go on.
C7_FatalTimeouts == [][C7_Step]_vars /\ []C7_State

C7_Witness ==
    /\ s_pc = "Aborted"
    /\ Len(timeouts) = 2
    /\ timeouts[1].phase = "AwaitChunkAck"
    /\ timeouts[2].phase = "AwaitImageOk"
    /\ HandedOff

\* the n-th write of a sender that writes the size and every chunk once
ExpectedSent(n) == IF n = 1 THEN SizeWrite ELSE ChunkWrite(n - 2)

\* the n-th token of a receiver that reads the size and every chunk once
ExpectedEmitted(n) ==
    IF n = 1 THEN [tok |-> "RDY", arg |-> CHUNK_SIZE, at |-> "RequestImage"]
    ELSE IF n = 2 THEN [tok |-> "ACK", arg |-> 0, at |-> "AckSize"]
    ELSE IF n = 3
      THEN [tok |-> "OK", arg |-> checksum(size), at |-> "ConfirmSize"]
    ELSE IF n <= 3 + NumChunks(Len(image))
      THEN [tok |-> "ACK", arg |-> n - 4, at |-> "AckImage"]
    ELSE [tok |-> "OK", arg |-> checksum(image), at |-> "ConfirmImage"]

\* the transfer is complete on both sides
Transferred == s_pc = "Done" /\ HandedOff

\* C3, in every state of a run on a faithful link in which no scan has timed
\* out: the sender has written the size and then the chunks 0, 1, ... once
\* each; the receiver has written RDY, ACK(0), the size OK, then ACK(0),
\* ACK(1), ... once each and the image OK; the sender has not ended early; at
\* Done all ceil(n / CHUNK_SIZE) chunks and ACKs are there; the buffer handed
\* off is the image.
C3_State ==
    timeouts = <<>> =>
        /\ Len(sent) <= 1 + NumChunks(Len(image))
        /\ \A n \in 1..Len(sent) : sent[n] = ExpectedSent(n)
        /\ Len(emitted) <= 4 + NumChunks(Len(image))
        /\ \A n \in 1..Len(emitted) : emitted[n] = ExpectedEmitted(n)
        /\ s_pc # "Aborted" /\ r_pc # "Panicked"
        /\ s_pc = "Done" =>
              /\ Len(sent) = 1 + NumChunks(Len(image))
              /\ Len(emitted) = 4 + NumChunks(Len(image))
              /\ image_buffer = image
        /\ HandedOff =>
              (Len(image_buffer) = Len(image) /\ image_buffer = image)

\* C3: on a faithful link, with no token later than its scan's budget, every
\* chunk is written once, every ACK is emitted once and in order, the sender
\* reaches Done, and the buffer handed off is the image, byte for byte.
C3_FaithfulTransfer == []C3_State /\ <>(timeouts # <<>> \/ Transferred)

C3_Witness ==
    /\ Transferred /\ timeouts = <<>>
    /\ Len(image) = CHUNK_SIZE
    /\ sent = <<SizeWrite, ChunkWrite(0)>>
    /\ Cardinality({n \in 1..Len(emitted) : emitted[n].at = "AckImage"}) = 1
    /\ Len(image_buffer) = CHUNK_SIZE /\ image_buffer = image

\* Scenario B: the image has CHUNK_SIZE + 1 bytes and the one scan that timed
\* out is the scan for ACK(1), before any byte of ACK(1) was read
ScenarioB ==
    /\ Len(image) = CHUNK_SIZE + 1
    /\ timeouts = <<[phase |-> "AwaitChunkAck", idx |-> 1, cursor |-> 0,
                     got |-> 0]>>

\* C4, in every state of Scenario B: the image is two chunks, of CHUNK_SIZE
\* bytes and of 1 byte; the sender has not ended early; past the timeout it
\* writes chunk 1 a second time and nothing else; it is past chunk 1 only
\* with ACK(1) matched; at Done the receiver's buffer is the image.
C4_State ==
    ScenarioB =>
        /\ NumChunks(Len(image)) = 2
        /\ Len(Chunk(image, 0)) = CHUNK_SIZE /\ Len(Chunk(image, 1)) = 1
        /\ s_pc \in {"SendChunk", "AwaitChunkAck", "AwaitImageOk", "Done"}
        /\ s_i = 1
        /\ s_pc = "SendChunk" =>
              sent = <<SizeWrite, ChunkWrite(0), ChunkWrite(1)>>
        /\ s_pc # "SendChunk" =>
              sent = <<SizeWrite, ChunkWrite(0), ChunkWrite(1), ChunkWrite(1)>>
        /\ s_pc \in {"AwaitImageOk", "Done"} =>
              (Len(matched) >= 5 /\ matched[5] = ACK(1))
        /\ s_pc = "Done" =>
              (Last(matched) = OK(checksum(image)) /\ image_buffer = image)

\* C4: a 257-byte image goes as two chunks of 256 and 1 bytes; when ACK(1)
\* comes only after the scan for it has timed out, the sender writes chunk 1
\* again, matches ACK(1) in the next scan and completes the transfer.
C4_DelayedAck ==
    /\ []C4_State
    /\ ScenarioB ~> (s_pc = "Done" \/ Len(timeouts) > 1)

C4_Witness ==
    /\ ScenarioB /\ s_pc = "Done"
    /\ Len(s2r) = 1

\* C5, in every state of a run on a faithful link with the empty image: the
\* sender writes the size and nothing else, is never on a chunk, and after
\* the size OK scans for OK(checksum of nothing); the receiver's buffer is
\* empty, it reads no chunk and emits no ACK for the image, and the OK it
\* emits for the image is OK(checksum of nothing).
C5_State ==
    image = <<>> =>
        /\ \A n \in 1..Len(sent) : sent[n] = SizeWrite
        /\ Len(sent) <= 1
        /\ ~OnChunk
        /\ \A n \in 1..Len(matched) : matched[n] # ACK(0) \/ n = 2
        /\ s_pc \in {"AwaitImageOk", "Done"} =>
              (Len(matched) >= 3 /\ matched[3] = OK(checksum(size)))
        /\ s_pc = "AwaitImageOk" => bytes = OK(checksum(<<>>))
        /\ image_buffer = <<>>
        /\ r_pc \notin {"ReadImage", "AckImage"}
        /\ \A n \in 1..Len(emitted) : emitted[n].at # "AckImage"
        /\ HandedOff =>
              Last(emitted) = [tok |-> "OK", arg |-> checksum(<<>>),
                               at |-> "ConfirmImage"]
        /\ s_pc = "Done" => Last(matched) = OK(checksum(<<>>))

\* C5, on every step of such a run: the sender's step out of the wait for
\* the size OK, when it matched, starts the wait for the image OK; the
\* receiver's step after the size OK is straight to the confirmation.
C5_Step ==
    image = <<>> =>
        /\ (s_pc = "AwaitSizeOk" /\ matched' # matched) =>
              (s_pc' = "AwaitImageOk" /\ sent' = sent /\ s2r' = s2r)
        /\ (r_pc = "ConfirmSize" /\ r_pc' # r_pc) =>
              (r_pc' = "ConfirmImage" /\ image_buffer' = <<>>)

\* C5: with a 0-byte image the sender goes from the size OK straight to the
\* scan for OK(checksum of the empty sequence), writing no image byte and
\* waiting for no image ACK; the receiver allocates an empty buffer, emits no
\* image ACK, emits OK(checksum of the empty sequence) and hands the empty
\* buffer off; the sender reaches Done.
C5_EmptyImage ==
    /\ []C5_State
    /\ [][C5_Step]_vars
    /\ (image = <<>>) ~> (timeouts # <<>> \/ Transferred)

C5_Witness ==
    /\ image = <<>> /\ Transferred /\ timeouts = <<>>
    /\ sent = <<SizeWrite>> /\ Len(emitted) = 4
    /\ image_buffer = <<>>

\* x and y are bytes that differ in exactly one bit
OneBit(x, y) == XorTable[x][y] \in {1, 2, 4, 8, 16, 32, 64, 128}

\* b is the image with a single bit flipped
OneBitOff(b) ==
    /\ Len(b) = Len(image)
    /\ LET differ == {k \in 1..Len(b) : b[k] # image[k]}
       IN  /\ Cardinality(differ) = 1
           /\ \A k \in differ : OneBit(b[k], image[k])

\* the receiver has filled its buffer, with the image but for one bit
StoredOneBitOff ==
    (r_pc = "ConfirmImage" \/ HandedOff) /\ OneBitOff(image_buffer)

\* C6: when what the receiver has stored is the image but for one flipped
\* bit, the OK it emits carries a checksum other than checksum(image), the
\* sender's scan for the image OK matches nothing and the sender never
\* reaches Done; it ends, if it ends, on an Err of a scan out of budget.
C6_BitFlip ==
    StoredOneBitOff =>
        \A theirs \in {checksum(image_buffer)}, ours \in {checksum(image)} :
            /\ theirs # ours
            /\ \A n \in 1..Len(emitted) : emitted[n].at = "ConfirmImage" =>
                  (emitted[n].tok = "OK" /\ emitted[n].arg # ours
                     /\ emitted[n].arg = theirs)
            /\ s_pc # "Done"
            /\ \A n \in 1..Len(matched) : matched[n] # OK(ours)
            /\ s_pc = "Aborted" =>
                  /\ ~result.ok /\ result.err < Len(bytes)
                  /\ remaining = Some(0)
                  /\ timeouts # <<>> /\ Last(timeouts).phase \in FatalWaits

C6_Witness ==
    /\ StoredOneBitOff /\ HandedOff
    /\ s_pc = "Aborted" /\ Last(timeouts).phase = "AwaitImageOk"
    /\ Len(image) = CHUNK_SIZE + 1
    /\ emitted # <<>> /\ Last(emitted).at = "ConfirmImage"

(***************************************************************************)
(* Claims about the receiver.                                              *)
(***************************************************************************)
\* the receiver is in receive_bytes, reading a chunk or about to write an ACK
Reading == r_pc \in {"ReadSize", "ReadImage"}
Acking == r_pc \in {"AckSize", "AckImage"}

\* the record of the token ACK(k) written in phase at
AckRecord(k, at) == [tok |-> "ACK", arg |-> k, at |-> at]

\* the number of chunks of the phase at the receiver is past the ACK of
ChunksDone(at) ==
    IF at = "AckSize"
      THEN IF r_pc \in {"RequestImage", "Panicked"} THEN 0
           ELSE IF r_pc \in {"ReadSize", "AckSize"} THEN r_i
           ELSE NumChunks(Len(size_buffer))
      ELSE IF r_pc \in {"ReadImage", "AckImage"} THEN r_i
           ELSE IF r_pc = "ConfirmImage" \/ HandedOff
             THEN NumChunks(Len(image_buffer))
           ELSE 0

\* how many times q holds the record r
Count(q, r) == Cardinality({n \in 1..Len(q) : q[n] = r})

\* the ACK records of phase at in q, in order
AcksOf(q, at) == SelectSeq(q, LAMBDA r : r.tok = "ACK" /\ r.at = at)

\* C11, on every step taken while the receiver reads chunk r_i: the step
\* writes no token and leaves the receiver on chunk r_i; it leaves the read
\* only when the whole region has been filled from the head of the channel.
\* On every step taken while the receiver is at the ACK of chunk r_i: its
\* own step writes ACK(r_i), once, and only then moves to the read of chunk
\* r_i + 1 or out of receive_bytes; no byte is read meanwhile.
C11_Step ==
    /\ Reading =>
          /\ emitted' = emitted /\ dropped' = dropped
          /\ Len(r2s') <= Len(r2s)
          /\ r_i' = r_i
          /\ r_pc' \in {r_pc, IF r_pc = "ReadSize" THEN "AckSize"
                                ELSE "AckImage"}
          /\ r_pc' # r_pc =>
                /\ Len(s2r) >= RegionLen
                /\ s2r' = SubSeq(s2r, RegionLen + 1, Len(s2r))
                /\ Slice(Data', ChunkStart(r_i), ChunkEnd(Len(Data), r_i))
                      = SubSeq(s2r, 1, RegionLen)
    /\ Acking =>
          /\ size_buffer' = size_buffer /\ image_buffer' = image_buffer
          /\ Len(s2r') >= Len(s2r)
          /\ r_pc' = r_pc => (emitted' = emitted /\ r_i' = r_i)
          /\ r_pc' # r_pc =>
                /\ \/ /\ emitted' = Append(emitted, AckRecord(r_i, r_pc))
                      /\ r2s' = r2s \o ACK(r_i)
                      /\ dropped' = dropped
                   \/ /\ dropped' = Append(dropped, AckRecord(r_i, r_pc))
                      /\ emitted' = emitted /\ r2s' = r2s
                /\ \/ Reading' /\ r_i' = r_i + 1
                   \/ r_pc' \in {"ConfirmSize", "ConfirmImage"}

\* C11, in every state: in each phase the writes of ACK are those of the
\* chunks 0, 1, ... the receiver is past, in that order, one write each;
\* the ACK of a chunk is in the channel once unless its write failed.
C11_State ==
    \A at \in {"AckSize", "AckImage"} :
        /\ \A k \in 0..MaxChunks :
              /\ Count(emitted, AckRecord(k, at))
                    + Count(dropped, AckRecord(k, at))
                    = IF k < ChunksDone(at) THEN 1 ELSE 0
        /\ \A n \in 1..Len(AcksOf(emitted, at)) :
              \A m \in 1..(n - 1) :
                  AcksOf(emitted, at)[m].arg < AcksOf(emitted, at)[n].arg

\* C11: in receive_bytes a failed read leaves the receiver on the same
\* chunk, writes no token and is tried again; ACK(i) is written once, after
\* the read into region i has succeeded and before region i + 1 is read.
C11_ChunkedReceive == [][C11_Step]_vars /\ []C11_State

\* a read of chunk 0 of the image failed after one byte, the next one filled
\* the region from the second byte on, and ACK(0) and ACK(1) followed
C11_Witness ==
    /\ HandedOff /\ Len(image) = CHUNK_SIZE + 1
    /\ image_buffer[1] = image[2] /\ image_buffer[1] # image[1]
    /\ AcksOf(emitted, "AckImage")
          = <<AckRecord(0, "AckImage"), AckRecord(1, "AckImage")>>

\* the receiver's state after the write of the token it is about to write,
\* whatever the write returned
AfterEmission ==
    IF Acking
      THEN IF r_i + 1 < NumChunks(Len(Data))
             THEN <<IF r_pc = "AckSize" THEN "ReadSize" ELSE "ReadImage",
                    r_i + 1, size_buffer, image_buffer>>
             ELSE <<IF r_pc = "AckSize" THEN "ConfirmSize"
                    ELSE "ConfirmImage", r_i, size_buffer, image_buffer>>
    ELSE IF r_pc = "ConfirmSize"
      THEN <<IF NumChunks(from_be_bytes(size_buffer)) > 0 THEN "ReadImage"
             ELSE "ConfirmImage", 0, size_buffer,
             Zeros(from_be_bytes(size_buffer))>>
    ELSE <<"HandOff", r_i, size_buffer, image_buffer>>

\* the receiver is about to write an ACK or an OK
Emitting == Acking \/ r_pc \in {"ConfirmSize", "ConfirmImage"}

\* C12, on every step in which the receiver writes an ACK or an OK: whether
\* the write failed or not, the receiver's next position, chunk index and
\* buffers are the same; a failed write puts nothing in the channel.
C12_Step ==
    (Emitting /\ (emitted' # emitted \/ dropped' # dropped)) =>
        /\ recvVars' = AfterEmission
        /\ dropped' # dropped => (r2s' = r2s /\ emitted' = emitted)

\* C12, in every state: the receiver has stopped only if the write of RDY
\* failed (uefi/main.rs:71), never for an ACK or an OK.
C12_State ==
    r_pc = "Panicked" =>
        dropped = <<[tok |-> "RDY", arg |-> CHUNK_SIZE, at |-> "RequestImage"]>>

\* C12: a failed write of ACK(i) or OK(c) leaves the receiver where a
\* successful one would, and with its last chunk read the receiver reaches
\* the hand-off.
C12_EmissionIgnored ==
    /\ [][C12_Step]_vars
    /\ []C12_State
    /\ (r_pc = "ConfirmImage") ~> HandedOff

\* the write of ACK(0) for the image failed and the receiver handed off
C12_Witness ==
    /\ dropped = <<AckRecord(0, "AckImage")>>
    /\ HandedOff /\ image_buffer = image /\ Len(image) = CHUNK_SIZE

(***************************************************************************)
(* Claims about the size field.                                            *)
(***************************************************************************)
\* the scans of the sender for the ACK of the size that have returned
SizeAckScans ==
    Len(SelectSeq(timeouts, LAMBDA t : t.phase = "AwaitSizeAck"))
      + (IF Len(matched) >= 2 THEN 1 ELSE 0)

\* what the receiver has written, or failed to write, for the size
SizeTokens(q) == SelectSeq(q, LAMBDA r : r.at \in {"AckSize", "ConfirmSize"})

\* C13, in every state: the size is SIZE_BYTES = 8 bytes, the image length
\* in big-endian order, and is one chunk for the sender and the receiver;
\* the sender waits for ACK(0) in one bounded scan, the only one that
\* returns before the scan for OK(checksum(size)); the receiver writes for
\* the size ACK(0) once and then the OK, and nothing else.
C13_State ==
    /\ Len(size) = 8 /\ SIZE_BYTES = 8
    /\ size[8] = Len(image) % 256 /\ size[7] = (Len(image) \div 256) % 256
    /\ \A k \in 1..6 : size[k] = 0
    /\ NumChunks(Len(size)) = 1
    /\ Len(size_buffer) = 8 /\ NumChunks(Len(size_buffer)) = 1
    /\ s_pc = "AwaitSizeAck" =>
          /\ s_i = 0 /\ bytes = ACK(0) /\ timeout = Some(ACK_TIMEOUT)
          /\ matched = <<RDY(CHUNK_SIZE)>> /\ SizeAckScans = 0
    /\ s_pc = "AwaitSizeOk" =>
          /\ bytes = OK(checksum(size)) /\ timeout = Some(ACK_TIMEOUT)
          /\ matched = <<RDY(CHUNK_SIZE), ACK(0)>> /\ SizeAckScans = 1
    /\ SizeAckScans <= 1
    /\ Len(matched) >= 2 => matched[2] = ACK(0)
    /\ Len(matched) >= 3 => matched[3] = OK(checksum(size))
    /\ Len(SizeTokens(emitted)) + Len(SizeTokens(dropped)) <= 2
    /\ \A q \in {emitted, dropped} : \A n \in 1..Len(SizeTokens(q)) :
          \/ SizeTokens(q)[n] = AckRecord(0, "AckSize")
          \/ /\ SizeTokens(q)[n].tok = "OK"
             /\ SizeTokens(q)[n].at = "ConfirmSize"
             /\ SizeTokens(q)[n].arg = checksum(size_buffer)
    /\ Count(emitted, AckRecord(0, "AckSize"))
          + Count(dropped, AckRecord(0, "AckSize"))
          = IF r_pc \in {"RequestImage", "Panicked", "ReadSize", "AckSize"}
              THEN 0 ELSE 1

\* C13, on every step: the sender writes the size as 8 bytes, and leaves
\* the wait for ACK(0) for the wait for the OK of the size or the end of
\* the program; the receiver leaves the ACK of the size for the OK.
C13_Step ==
    /\ (s_pc = "SendSize" /\ sent' # sent) =>
          (s2r' = s2r \o size /\ Len(s2r') = Len(s2r) + 8)
    /\ (s_pc = "AwaitSizeAck" /\ s_pc' # s_pc) =>
          s_pc' \in {"AwaitSizeOk", "Aborted"}
    /\ (r_pc = "ReadSize" /\ r_pc' # r_pc) =>
          (r_pc' = "AckSize" /\ Len(s2r') = Len(s2r) - 8)
    /\ (r_pc = "AckSize" /\ r_pc' # r_pc) => r_pc' = "ConfirmSize"

\* C13: the size field is 8 bytes, big-endian, and one chunk for both
\* roles: one ACK(0) from the receiver between RDY and the OK of the size,
\* one bounded scan for ACK(0) by the sender before the scan for that OK.
C13_SizeOneChunk == [][C13_Step]_vars /\ []C13_State

C13_Witness ==
    /\ s_pc = "AwaitSizeOk" /\ Len(image) = CHUNK_SIZE + 1
    /\ size = <<0, 0, 0, 0, 0, 0, 1, 1>> /\ size_buffer = size
    /\ emitted = <<[tok |-> "RDY", arg |-> CHUNK_SIZE, at |-> "RequestImage"],
                   AckRecord(0, "AckSize"),
                   [tok |-> "OK", arg |-> checksum(size),
                    at |-> "ConfirmSize"]>>

(***************************************************************************)
(* Claims about the budgets of the sender's scans.                         *)
(***************************************************************************)
\* C14 as stated: the budget of the scan for the image OK is larger than the
\* budget of the scan for the ACK of a chunk.
C14_AsStated ==
    /\ s_pc = "AwaitChunkAck" => timeout = Some(ACK_TIMEOUT)
    /\ s_pc = "AwaitImageOk" => (timeout # None /\ timeout[1] > ACK_TIMEOUT)

\* C14 (amended): the scan for the ACK of a chunk has a budget of 30 ms and
\* the scan for the image OK a budget of 20 ms, which is the smaller one;
\* what remains of a budget is never more than the budget.
C14_Budgets ==
    /\ s_pc = "AwaitChunkAck" =>
          /\ timeout = Some(ACK_TIMEOUT) /\ timeout[1] = 30000
          /\ remaining # None /\ remaining[1] <= timeout[1]
    /\ s_pc = "AwaitImageOk" =>
          /\ timeout = Some(IMAGE_OK_TIMEOUT) /\ timeout[1] = 20000
          /\ timeout[1] < ACK_TIMEOUT
          /\ remaining # None /\ remaining[1] <= timeout[1]

\* the scan for the image OK has used its budget up, after a scan for the
\* ACK of a chunk had used up its own
C14_Witness ==
    /\ s_pc = "AwaitImageOk" /\ remaining = Some(0)
    /\ timeouts # <<>> /\ Last(timeouts).phase = "AwaitChunkAck"

(***************************************************************************)
(* Claims about the receiver's OK tokens.                                  *)
(***************************************************************************)
\* the record of the token OK(c) written in phase at
OkRecord(c, at) == [tok |-> "OK", arg |-> c, at |-> at]

\* the records of phase at among the tokens written and those not written
Attempts(at) ==
    Len(SelectSeq(emitted, LAMBDA r : r.at = at))
      + Len(SelectSeq(dropped, LAMBDA r : r.at = at))

\* C15, on every step of the receiver out of the OK of a phase: the one
\* token it writes is OK(c), c the checksum of the bytes the buffer of the
\* phase holds at that moment; the step reads no byte and changes no byte
\* of that buffer; the receiver's next position is the same whatever c is.
\* No other step writes an OK, and past the hand-off the receiver writes no
\* token and leaves the buffer as it is.
C15_Step ==
    /\ (r_pc = "ConfirmSize" /\ r_pc' # r_pc) =>
          \A c \in {checksum(size_buffer)} :
              /\ \/ /\ emitted' = Append(emitted, OkRecord(c, r_pc))
                    /\ r2s' = r2s \o OK(c) /\ dropped' = dropped
                 \/ /\ dropped' = Append(dropped, OkRecord(c, r_pc))
                    /\ r2s' = r2s /\ emitted' = emitted
              /\ s2r' = s2r /\ size_buffer' = size_buffer
              /\ recvVars' = AfterEmission
    /\ (r_pc = "ConfirmImage" /\ r_pc' # r_pc) =>
          \A c \in {checksum(image_buffer)} :
              /\ \/ /\ emitted' = Append(emitted, OkRecord(c, r_pc))
                    /\ r2s' = r2s \o OK(c) /\ dropped' = dropped
                 \/ /\ dropped' = Append(dropped, OkRecord(c, r_pc))
                    /\ r2s' = r2s /\ emitted' = emitted
              /\ s2r' = s2r /\ image_buffer' = image_buffer
              /\ r_pc' = "HandOff"
    /\ (r_pc \notin {"ConfirmSize", "ConfirmImage"}) =>
          \A n \in (Len(emitted) + 1)..Len(emitted') : emitted'[n].tok # "OK"
    /\ HandedOff =>
          (HandedOff' /\ emitted' = emitted /\ image_buffer' = image_buffer)

\* C15, in every state: the OK of a phase has been written once when the
\* receiver is past it and not before; at the OK of the size every ACK of
\* the size is behind, no buffer for the image exists and no ACK for the
\* image has been written; at the OK of the image every chunk has had its
\* ACK; at the hand-off the OK of the image is the last token written and
\* carries the checksum of the buffer handed off.
C15_State ==
    /\ Attempts("ConfirmSize")
          = IF r_pc \in {"RequestImage", "Panicked", "ReadSize", "AckSize",
                         "ConfirmSize"} THEN 0 ELSE 1
    /\ Attempts("ConfirmImage") = IF HandedOff THEN 1 ELSE 0
    /\ r_pc = "ConfirmSize" =>
          /\ Attempts("AckSize") = NumChunks(Len(size_buffer))
          /\ Attempts("AckImage") = 0 /\ image_buffer = <<>>
    /\ (r_pc = "ConfirmImage" \/ HandedOff) =>
          Attempts("AckImage") = NumChunks(Len(image_buffer))
    /\ r_pc = "HandOff" =>
          \A n \in 1..Len(emitted) : emitted[n].at = "ConfirmImage" =>
              (n = Len(emitted)
                 /\ emitted[n] = OkRecord(checksum(image_buffer), emitted[n].at))

\* C15: in each phase the receiver writes OK(c) once, after the last ACK of
\* the phase and before it reads a byte of the next one or hands off, with
\* c the checksum of the bytes the phase's buffer holds at that moment; it
\* compares c with nothing.
C15_OkOnce == [][C15_Step]_vars /\ []C15_State

\* the receiver has handed off a buffer that is not the image, having
\* written the OK of the size and the OK of that buffer
C15_Witness ==
    /\ HandedOff /\ image_buffer # image /\ Len(image) = CHUNK_SIZE + 1
    /\ Len(emitted) = 6 /\ emitted[3].at = "ConfirmSize"
    /\ emitted[6] = OkRecord(checksum(image_buffer), "ConfirmImage")
    /\ s_pc = "AwaitImageOk"

(***************************************************************************)
(* Claims about the unbounded scan.                                        *)
(***************************************************************************)
\* C16, in every state of the wait for RDY: the scan has no budget, its
\* target is RDY(CHUNK_SIZE), its loop goes on while the cursor is short of
\* the target, the cursor is the length of the prefix of the target the
\* bytes read last make up, and the sender has written nothing; and in
\* every state no scan without a budget has returned an Err.
C16_State ==
    /\ s_pc = "AwaitReady" =>
          /\ timeout = None /\ remaining = None /\ fails = 0
          /\ bytes = RDY(CHUNK_SIZE)
          /\ i <= Len(bytes) /\ (i < Len(bytes) => LoopCond)
          /\ i <= Len(consumed)
          /\ SubSeq(consumed, Len(consumed) - i + 1, Len(consumed))
                = SubSeq(bytes, 1, i)
          /\ sent = <<>> /\ s2r = <<>> /\ matched = <<>> /\ timeouts = <<>>
    /\ \A n \in 1..Len(timeouts) : timeouts[n].phase # "AwaitReady"
    /\ timeout = None => (remaining = None /\ timeouts = <<>>)

\* C16, on every step taken in the wait for RDY: a step that reads no byte
\* leaves the cursor, the budget and the sender's position as they are; the
\* sender leaves the wait only with Ok, the cursor at the end of the target
\* and the bytes of RDY(CHUNK_SIZE) the last ones read, for the write of
\* the size.
C16_Step ==
    s_pc = "AwaitReady" =>
        /\ s2r' = s2r /\ sent' = sent
        /\ consumed' = consumed =>
              (i' = i /\ remaining' = remaining /\ timeout' = timeout)
        /\ s_pc' # s_pc =>
              /\ s_pc' = "SendSize"
              /\ result'.ok /\ i = Len(bytes)
              /\ IsSuffix(RDY(CHUNK_SIZE), consumed)
              /\ matched' = <<RDY(CHUNK_SIZE)>> /\ timeouts' = timeouts

\* C16: the scan without a budget never returns a failure; failed reads
\* change nothing; it returns only with the cursor at the end of the target,
\* the bytes of RDY(256) read in a row; until then the sender writes
\* nothing.
C16_UnboundedScan == [][C16_Step]_vars /\ []C16_State

\* the sender has left the wait for RDY with RDY read, the size not yet sent
C16_Witness ==
    /\ s_pc = "SendSize" /\ result.ok /\ timeout = None
    /\ consumed = RDY(CHUNK_SIZE) /\ matched = <<RDY(CHUNK_SIZE)>>
    /\ sent = <<>> /\ s2r = <<>>

(***************************************************************************)
(* Claims about the scanner's cursor.                                      *)
(***************************************************************************)
\* C17, on every step of a scan that reads a byte: the byte is the head of
\* the channel and leaves it; the cursor goes up by one when the byte is
\* the target's byte at the cursor, and to 0 when it is not, the byte not
\* being tried against the start of the target.  A step that reads no byte
\* leaves the cursor.
C17_Step ==
    /\ consumed' # consumed =>
          /\ r2s # <<>> /\ r2s' = Tail(r2s)
          /\ consumed' = Append(consumed, Head(r2s))
          /\ i < Len(bytes)
          /\ i' = IF Head(r2s) = bytes[i + 1] THEN i + 1 ELSE 0
    /\ consumed' = consumed => i' = i

\* C17, in every state: the cursor is between 0 and the length of the
\* target, and 0 before any byte is read; on the stream x ++ target with x
\* the first byte of the target and the second byte of the target another
\* one, the target has not been matched when its last byte has been read.
C17_State ==
    /\ i >= 0 /\ i <= Len(bytes)
    /\ consumed = <<>> => i = 0
    /\ (/\ Len(bytes) >= 2 /\ bytes[2] # bytes[1]
        /\ IsPrefix(<<bytes[1]>> \o bytes, Stream0)
        /\ Len(consumed) = Len(bytes) + 1) => i < Len(bytes)

\* C17: the cursor starts at 0 and stays within 0..len(target); a byte read
\* that is the target's byte at the cursor moves the cursor up by one, any
\* other byte resets it to 0 and is not tried against the target's start.
C17_CursorRule == [][C17_Step]_vars /\ []C17_State

\* the stream was x ++ target and the scan has returned an Err, the whole
\* stream read and the budget spent
C17_Witness ==
    /\ s_pc = "Returned" /\ ~result.ok
    /\ Len(bytes) = 3 /\ bytes[2] # bytes[1]
    /\ consumed = <<bytes[1]>> \o bytes /\ r2s = <<>>

(***************************************************************************)
(* Claims about retransmission.                                            *)
(***************************************************************************)
\* the bytes the receiver's buffer holds in the region of chunk k
Region(k) ==
    Slice(image_buffer, ChunkStart(k), ChunkEnd(Len(image_buffer), k))

\* the chunks of the image the receiver has written an ACK for
AckedChunks ==
    {emitted[n].arg : n \in {m \in 1..Len(emitted) :
                                 emitted[m].at = "AckImage"}}

\* C18 as stated: for every ACK(k) the receiver has written for the image,
\* the region of chunk k of its buffer holds chunk k of the sender's image.
C18_AsStated ==
    \A k \in AckedChunks :
        Len(image_buffer) = Len(image) /\ Region(k) = Chunk(image, k)

\* C19, in every state: when the sender has reached Done, the receiver has
\* handed off a buffer of the length of the image that is the image, byte
\* for byte; whatever has gone wrong on the way (timeouts, retransmitted
\* chunks, failed calls, a flipped bit), the sender has then matched
\* OK(checksum(image)) and no reachable buffer but the image has that
\* checksum.
C19_Integrity ==
    s_pc = "Done" =>
        /\ HandedOff
        /\ Len(image_buffer) = Len(image)
        /\ image_buffer = image
        /\ Last(matched) = OK(checksum(image))

\* the sender is at Done after a retransmission of the last chunk
C19_Witness ==
    /\ s_pc = "Done" /\ Len(image) = CHUNK_SIZE + 1
    /\ timeouts # <<>> /\ TimesSent(1) = 2
    /\ image_buffer = image /\ r_pc = "Started"

\* the first scan that ran out of budget was a scan for the ACK of a chunk
ChunkRetried == timeouts # <<>> /\ timeouts[1].phase = "AwaitChunkAck"

\* a later scan ran out of budget with its token late: before the bytes of
\* the token the receiver wrote for it had all been read
LateAgain ==
    \E n \in 2..Len(timeouts) :
        timeouts[n].phase = "AwaitImageOk" =>
            timeouts[n].got < Len(OK(checksum(image_buffer)))

\* C20 as stated: on a link that loses and corrupts nothing, once a scan for
\* the ACK of a chunk has run out of budget and no later token is late, the
\* sender gets past the chunk and the transfer completes: the sender at
\* Done, the receiver past the hand-off.
C20_AsStated == ChunkRetried ~> (Transferred \/ LateAgain)

====
